---- MODULE Spec2Model ----
(***************************************************************************)
(* run_pipeline of src/pve-zfs-utility.py (lines 160-356) as a state       *)
(* machine: the parent's position in the function (pc), the spawned        *)
(* processes, the pipe ends the parent holds, the output file and the      *)
(* lists the wait loop fills.                                              *)
(*                                                                         *)
(* Stage k of the code (0-based) is position k+1 of the sequences here.    *)
(* Python values that may be None are encoded as sequences: None is <<>>,  *)
(* the integer v is <<v>>.  Time is counted in ticks; it passes only       *)
(* while the parent is blocked in communicate(timeout) or wait(timeout),   *)
(* so every stage is launched at tick 0 and `now` is its running time.     *)
(* SIGKILL is taken to end a running process at once.                      *)
(*                                                                         *)
(* Spec is run_pipeline alone; SpecFlow adds the pipes between its stages; *)
(* SpecVm is run_pipeline of src/pve-vm-clone-script.py; SpecClone,        *)
(* SpecRestore and SpecExport are do_clone, do_restore and do_export of    *)
(* src/pve-zfs-utility.py, with each call of run_pipeline taken whole.     *)
(***************************************************************************)
EXTENDS Integers, Sequences, FiniteSets, TLC

VARIABLES
    commands,            \* cmd[0] of every stage
    output_file,         \* TRUE when the caller passed an output_file
    file,                \* what is at the output path: "absent", "old", "new"
    final_output_handle, \* "None", "open", "closed"
    pc,                  \* position of the parent in run_pipeline; "done" is
                         \* the return of line 331, "done_except" that of
                         \* the handlers (lines 344, 356)
    i,                   \* index of the spawn loop
    idx,                 \* index of the wait loop
    cl,                  \* index of the cleanup loop
    proc,                \* the Popen objects and the processes behind them
    last_process_stdout, \* 0 for None, else the stage whose stdout it is
    return_codes,
    stderr_outputs,
    outcomes,            \* the branch of the wait loop each stage went through
    success,
    timed_out,
    result,              \* "none" until the return, then "True" or "False"
    log,                 \* the reports printed, in order
    unlink_failed,       \* output_file.unlink() raised OSError
    now,                 \* ticks since the stages were launched (capped)
    waited,              \* ticks spent in the current timed wait
    caller               \* the locals of the function that calls run_pipeline
                         \* (do_clone, do_restore, do_export) and the
                         \* datasets and files it works on

vars == <<commands, output_file, file, final_output_handle, pc, i, idx, cl,
          proc, last_process_stdout, return_codes, stderr_outputs, outcomes,
          success, timed_out, result, log, unlink_failed, now, waited,
          caller>>

(* the variables of run_pipeline *)
pipeline == <<commands, output_file, file, final_output_handle, pc, i, idx, cl,
              proc, last_process_stdout, return_codes, stderr_outputs,
              outcomes, success, timed_out, result, log, unlink_failed, now,
              waited>>

-----------------------------------------------------------------------------
(* Bound of the model: the longest pipeline *)
MaxStages == 3

(* Program constants.  Durations are in ticks of one hour, rounded down *)
CommTimeout == 2     \* communicate(timeout=7200)
KillWait == 0        \* communicate(timeout=10) after the kill
TermWait == 0        \* wait(timeout=5) after terminate
PIPE == -1           \* subprocess.PIPE
SIGPIPE_RC == -13
SIGKILL_RC == -9
SIGTERM_RC == -15
TIMEOUT_RC == -1
COMM_ERR_RC == -99

None == <<>>
Some(v) == <<v>>

(* cmd[0] of the pipelines the callers build (do_clone, do_export,
   do_restore), and the pipelines without a monitor or compressor stage *)
Pipelines ==
    { <<>>, <<"zfs">>, <<"zfs", "zfs">>, <<"zfs", "pv">>, <<"zfs", "gzip">>,
      <<"zfs", "pv", "zfs">>, <<"zfs", "pv", "gzip">>, <<"cat", "gunzip", "zfs">>,
      <<"cat", "gunzip", "pv", "zfs">> }
NoStderrCapture == {"pv", "gzip", "gunzip", "pigz", "unpigz", "zstd", "unzstd"}
ExitCodes == {0, 1, SIGPIPE_RC}

num_commands == Len(commands)
Stages == 1..num_commands

(* diag is the text the stage has written to its stderr pipe and the
   parent has not read; blk is the stream of the stage whose pipe is full
   and on which the stage is blocked in a write, or "no" *)
(* run_pipeline on its own, outside a run of its callers *)
NoCaller == [fn |-> "none"]

NoProc == [st |-> "none", status |-> 0, stdout |-> "none", stderr |-> "none",
           term |-> FALSE, kill |-> FALSE, diag |-> "", blk |-> "no"]

Spawned(k) == proc[k].st # "none"

(* Popen.returncode: set only once the process has been waited on *)
returncode(k) == IF proc[k].st = "reaped" THEN Some(proc[k].status) ELSE None

-----------------------------------------------------------------------------
InitPipeline ==
    /\ commands \in {p \in Pipelines : Len(p) <= MaxStages}
    /\ output_file \in BOOLEAN
    /\ file \in IF output_file THEN {"absent", "old"} ELSE {"absent"}
    /\ final_output_handle = "None"
    /\ pc = "start"
    /\ i = 1
    /\ idx = 1
    /\ cl = 1
    /\ proc = [k \in Stages |-> NoProc]
    /\ last_process_stdout = 0
    /\ return_codes = <<>>
    /\ stderr_outputs = <<>>
    /\ outcomes = <<>>
    /\ success = TRUE
    /\ timed_out = FALSE
    /\ result = "none"
    /\ log = <<>>
    /\ unlink_failed = FALSE
    /\ now = 0
    /\ waited = 0

Init == InitPipeline /\ caller = NoCaller

(* no pipeline is running: the state of the pipeline variables during a
   run of one of the callers, whose calls of run_pipeline are taken whole *)
InitIdle == InitPipeline /\ commands = <<>> /\ ~output_file

-----------------------------------------------------------------------------
(* Helpers of the parent *)

(* the pipe ends of stage k the parent holds are closed (lines 296-304;
   Popen.stdin is None for every stage, stdin never being PIPE) *)
ClosePipes(p) ==
    [p EXCEPT !.stdout = IF @ = "none" THEN "none" ELSE "closed",
              !.stderr = IF @ = "none" THEN "none" ELSE "closed",
              !.diag = ""]

(* Popen.poll() / wait() on a process that has exited reaps it *)
Reap(p) == IF p.st = "exited" THEN [p EXCEPT !.st = "reaped"] ELSE p

(* Popen.kill(): send_signal polls first and signals only a live process *)
Kill(p) ==
    IF p.st = "running"
    THEN [p EXCEPT !.st = "exited", !.status = SIGKILL_RC, !.kill = TRUE,
                   !.blk = "no"]
    ELSE Reap(p)

(* output_file.exists() and output_file.unlink(); ok is FALSE when unlink
   raises OSError *)
Unlink(f, ok) == IF f # "absent" /\ ok THEN "absent" ELSE f

-----------------------------------------------------------------------------
(* Catch that lets every exception but FileNotFoundError leave the call *)
Catch_OnlyNotFound(exc) ==
    IF exc = "FileNotFoundError" THEN "except_fnf" ELSE "raised"

(* lines 333 and 345: the handler an exception raised in the try block
   reaches; "raised" would be an exception that leaves run_pipeline *)
Catch(exc) == IF exc = "FileNotFoundError" THEN "except_fnf" ELSE "except_other"

(* CloseStdinSource that leaves the parent's copy of the pipe open *)
CloseStdinSource_Skipped(p) == p

(* lines 207-214: stdin_source.close() *)
CloseStdinSource(p) == [p EXCEPT !.stdout = "closed"]

(* Lines 164-180: the set-up before the spawn loop.  With an output_file
   the parent directory is made and the file opened with mode 'wb', which
   creates it or truncates what is there; either call may raise OSError. *)
Setup ==
    /\ pc = "start"
    /\ \E opened \in BOOLEAN :
         IF output_file /\ ~opened
         THEN /\ pc' = Catch("OSError")
              /\ UNCHANGED <<file, final_output_handle>>
         ELSE /\ file' = IF output_file THEN "new" ELSE file
              /\ final_output_handle' = IF output_file THEN "open" ELSE "None"
              /\ pc' = IF num_commands = 0 THEN "finish" ELSE "spawn"
    /\ UNCHANGED <<caller, commands, output_file, i, idx, cl, proc, last_process_stdout,
                   return_codes, stderr_outputs, outcomes, success, timed_out,
                   result, log, unlink_failed, now, waited>>

(* Lines 182-218: one turn of the spawn loop.  Popen either starts the
   stage or raises (FileNotFoundError, or another OSError such as
   PermissionError) before anything of this turn has been recorded. *)
is_last_command(k) == k = num_commands

stdout_dest(k) ==
    IF is_last_command(k) /\ final_output_handle # "None" THEN "none" ELSE "open"

stderr_dest(k) == IF commands[k] \in NoStderrCapture THEN "none" ELSE "open"

Spawn ==
    /\ pc = "spawn"
    /\ \E res \in {"ok", "FileNotFoundError", "OSError"} :
         IF res = "ok"
         THEN /\ proc' = [k \in Stages |->
                    IF k = i
                    THEN [NoProc EXCEPT !.st = "running",
                                        !.stdout = stdout_dest(i),
                                        !.stderr = stderr_dest(i)]
                    ELSE IF k = last_process_stdout
                    THEN CloseStdinSource(proc[k])
                    ELSE proc[k]]
              /\ last_process_stdout' =
                    IF ~(is_last_command(i) /\ final_output_handle # "None")
                    THEN i ELSE last_process_stdout
              /\ i' = i + 1
              /\ pc' = IF is_last_command(i) THEN "communicate" ELSE "spawn"
         ELSE /\ pc' = Catch(res)
              /\ UNCHANGED <<proc, last_process_stdout, i>>
    /\ UNCHANGED <<caller, commands, output_file, file, final_output_handle, idx, cl,
                   return_codes, stderr_outputs, outcomes, success, timed_out,
                   result, log, unlink_failed, now, waited>>

-----------------------------------------------------------------------------
(* The stage processes.  A running stage ends by itself with exit code 0,
   a non-zero exit code or SIGPIPE; once SIGTERM has been sent it may also
   end by that signal.  The parent learns of a stage's end only through
   communicate(), poll() and wait() on that stage, so the end of a stage is
   taken at the point where the parent is about to look at it: an earlier
   end of the same stage leads the parent through the same steps.  A stage
   whose stderr is a pipe may have written diagnostic text to it. *)
Written(k) == IF proc[k].stderr = "none" THEN {""} ELSE {"", "diag"}

Observed(k) ==
    \/ pc = "communicate" /\ k = idx
    \/ pc \in {"cleanup", "term_wait"} /\ k = cl
    \/ pc \in {"except_fnf", "except_other"}

ProcExit ==
    \E k \in Stages :
        /\ Observed(k)
        /\ proc[k].st = "running"
        /\ \E rc \in ExitCodes \cup (IF proc[k].term THEN {SIGTERM_RC} ELSE {}),
              text \in Written(k) :
             /\ proc[k].blk # "no" => rc = SIGTERM_RC
             /\ proc' = [proc EXCEPT ![k].st = "exited", ![k].status = rc,
                                     ![k].diag = text, ![k].blk = "no"]
        /\ UNCHANGED <<caller, commands, output_file, file, final_output_handle, pc, i,
                       idx, cl, last_process_stdout, return_codes,
                       stderr_outputs, outcomes, success, timed_out, result, log,
                       unlink_failed, now, waited>>

(* The stage the parent is blocked on, and the timeout of that wait *)
Awaited == IF pc = "communicate" THEN idx ELSE cl
WaitLimit == IF pc = "communicate" THEN CommTimeout ELSE TermWait

(* the clock stops counting one tick past the largest time a property reads *)
ClockTop == CommTimeout + KillWait + 1

(* A tick of the clock while the parent is blocked on a running stage *)
Tick ==
    /\ pc \in {"communicate", "term_wait"}
    /\ proc[Awaited].st = "running"
    /\ waited < WaitLimit
    /\ waited' = waited + 1
    /\ now' = IF now < ClockTop THEN now + 1 ELSE now
    /\ UNCHANGED <<caller, commands, output_file, file, final_output_handle, pc, i, idx,
                   cl, proc, last_process_stdout, return_codes, stderr_outputs,
                   outcomes, success, timed_out, result, log, unlink_failed>>

-----------------------------------------------------------------------------
(* Lines 226-280: the wait loop *)

(* proc.stderr is None or a file object; line 229 compares it with the
   integer subprocess.PIPE *)
StderrAttr(k) == IF proc[k].stderr = "none" THEN None ELSE <<"file", k>>
capture_stderr(k) == StderrAttr(k) = Some(PIPE)

(* what communicate() hands back as stderr_data: nothing for a stage whose
   stderr is inherited, else the text the stage wrote (whatever a stage
   that is still running and is killed has written by then) *)
DiagText(k) ==
    IF proc[k].stderr = "none" THEN {""}
    ELSE IF proc[k].st = "running" THEN {"", "diag"} ELSE {proc[k].diag}

(* communicate() has read the stage's stderr to its end *)
ReadToEnd(p) == [p EXCEPT !.diag = ""]

(* lines 237-243 *)
StderrContent(k, stderr_data) ==
    IF capture_stderr(k) /\ stderr_data # "" THEN stderr_data ELSE ""

(* lines 264-267 *)
TimeoutContent(k, stderr_data) ==
    IF capture_stderr(k) /\ stderr_data # "" THEN stderr_data ELSE "Timeout"

(* the branch of lines 246-253 taken for a return code *)
ExitClass(rc) ==
    IF rc = 0 THEN "Success"
    ELSE IF rc = SIGPIPE_RC THEN "BrokenPipe" ELSE "NonZeroExit"

(* Report that prints a SIGPIPE exit as a failure of the stage *)
Report_SigpipeFails(k, rc, content) ==
    IF rc = 0 THEN <<>>
    ELSE <<[kind |-> "error_failed", stage |-> k, text |-> content]>>

(* lines 246-253: what is printed for stage k *)
Report(k, rc, content) ==
    IF rc = 0 THEN <<>>
    ELSE IF rc = SIGPIPE_RC
    THEN <<[kind |-> "warning_sigpipe", stage |-> k, text |-> ""]>>
    ELSE <<[kind |-> "error_failed", stage |-> k, text |-> content]>>

(* lines 246-250: the success flag after a return code *)
SuccessAfter(s, rc) == IF rc # 0 /\ rc # SIGPIPE_RC THEN FALSE ELSE s

(* PadTo without the filling of lines 279-280 *)
PadTo_NoFill(seq, fill) == seq

(* lines 279-280: the lists are filled up to num_commands *)
PadTo(seq, fill) ==
    IF Len(seq) < num_commands
    THEN seq \o [k \in 1..(num_commands - Len(seq)) |-> fill]
    ELSE seq

(* the lists when the loop goes on, and when it is left *)
Listed(seq, leave, fill) == IF leave THEN PadTo(seq, fill) ELSE seq

(* lines 233-253: communicate() returns for a stage that has exited *)
CommunicateReturn ==
    /\ pc = "communicate"
    /\ proc[idx].st = "exited"
    /\ \E stderr_data \in DiagText(idx) :
         LET rc == proc[idx].status
             content == StderrContent(idx, stderr_data)
             leave == idx = num_commands
         IN  /\ proc' = [proc EXCEPT ![idx] = ReadToEnd(Reap(@))]
             /\ return_codes' = Listed(Append(return_codes, Some(rc)), leave, None)
             /\ stderr_outputs' =
                    Listed(Append(stderr_outputs, content), leave,
                           "Not executed or error")
             /\ outcomes' = Listed(Append(outcomes, ExitClass(rc)), leave, "NotRun")
             /\ log' = log \o Report(idx, rc, content)
             /\ success' = SuccessAfter(success, rc)
             /\ idx' = idx + 1
             /\ pc' = IF leave THEN "cleanup" ELSE "communicate"
    /\ waited' = 0
    /\ UNCHANGED <<caller, commands, output_file, file, final_output_handle, i, cl,
                   last_process_stdout, timed_out, result, unlink_failed, now>>

(* lines 254-269: communicate() times out; the stage is killed, a second
   communicate(timeout=10) either reaps it or raises, and the loop is left *)
CommunicateTimeout ==
    /\ pc = "communicate"
    /\ proc[idx].st = "running"
    /\ waited >= CommTimeout
    /\ \E reaped \in BOOLEAN, stderr_data \in DiagText(idx) :
         LET killed == Kill(proc[idx])
             after == IF reaped THEN ReadToEnd(Reap(killed)) ELSE killed
             rc == IF after.st = "reaped" THEN after.status ELSE TIMEOUT_RC
         IN  /\ proc' = [proc EXCEPT ![idx] = after]
             /\ return_codes' = PadTo(Append(return_codes, Some(rc)), None)
             /\ stderr_outputs' =
                    PadTo(Append(stderr_outputs, TimeoutContent(idx, stderr_data)),
                          "Not executed or error")
             /\ outcomes' = PadTo(Append(outcomes, "Timeout"), "NotRun")
    /\ log' = Append(log, [kind |-> "error_timed_out", stage |-> idx, text |-> ""])
    /\ success' = FALSE
    /\ timed_out' = TRUE
    /\ pc' = "cleanup"
    /\ waited' = 0
    /\ UNCHANGED <<caller, commands, output_file, file, final_output_handle, i, idx, cl,
                   last_process_stdout, result, unlink_failed, now>>

(* lines 270-275: communicate() raises another exception; the return code
   is the process's if it has been reaped, else -99 *)
CommunicateError ==
    /\ pc = "communicate"
    /\ \E reaped \in BOOLEAN :
         LET after == IF reaped THEN Reap(proc[idx]) ELSE proc[idx]
             rc == IF after.st = "reaped" THEN after.status ELSE COMM_ERR_RC
             leave == idx = num_commands
         IN  /\ proc' = [proc EXCEPT ![idx] = after]
             /\ return_codes' = Listed(Append(return_codes, Some(rc)), leave, None)
             /\ stderr_outputs' =
                    Listed(Append(stderr_outputs, "Communication Error"), leave,
                           "Not executed or error")
             /\ outcomes' =
                    Listed(Append(outcomes, "CommunicationError"), leave, "NotRun")
             /\ pc' = IF leave THEN "cleanup" ELSE "communicate"
    /\ log' = Append(log, [kind |-> "error_communicate", stage |-> idx, text |-> ""])
    /\ success' = FALSE
    /\ idx' = idx + 1
    /\ waited' = 0
    /\ UNCHANGED <<caller, commands, output_file, file, final_output_handle, i, cl,
                   last_process_stdout, timed_out, result, unlink_failed, now>>

-----------------------------------------------------------------------------
(* Lines 282-304: the cleanup loop over the spawned stages *)
AfterCleanup == IF cl = num_commands THEN "finish" ELSE "cleanup"

(* poll() finds the stage ended: nothing to terminate, its pipes are closed *)
CleanupEnded ==
    /\ pc = "cleanup"
    /\ proc[cl].st # "running"
    /\ proc' = [proc EXCEPT ![cl] = ClosePipes(Reap(@))]
    /\ cl' = cl + 1
    /\ pc' = AfterCleanup
    /\ UNCHANGED <<caller, commands, output_file, file, final_output_handle, i, idx,
                   last_process_stdout, return_codes, stderr_outputs, outcomes,
                   success, timed_out, result, log, unlink_failed, now, waited>>

(* poll() is None: terminate() and the start of wait(timeout=5) *)
CleanupTerminate ==
    /\ pc = "cleanup"
    /\ proc[cl].st = "running"
    /\ proc' = [proc EXCEPT ![cl].term = TRUE]
    /\ pc' = "term_wait"
    /\ waited' = 0
    /\ UNCHANGED <<caller, commands, output_file, file, final_output_handle, i, idx, cl,
                   last_process_stdout, return_codes, stderr_outputs, outcomes,
                   success, timed_out, result, log, unlink_failed, now>>

(* wait(timeout=5) returns: the stage ended within the grace period *)
TermWaitReturn ==
    /\ pc = "term_wait"
    /\ proc[cl].st = "exited"
    /\ proc' = [proc EXCEPT ![cl] = ClosePipes(Reap(@))]
    /\ cl' = cl + 1
    /\ pc' = AfterCleanup
    /\ waited' = 0
    /\ UNCHANGED <<caller, commands, output_file, file, final_output_handle, i, idx,
                   last_process_stdout, return_codes, stderr_outputs, outcomes,
                   success, timed_out, result, log, unlink_failed, now>>

(* wait(timeout=5) times out: the stage is killed and waited on *)
TermWaitKill ==
    /\ pc = "term_wait"
    /\ proc[cl].st = "running"
    /\ waited >= TermWait
    /\ proc' = [proc EXCEPT ![cl] = ClosePipes(Reap(Kill(@)))]
    /\ log' = Append(log, [kind |-> "warning_kill", stage |-> cl, text |-> ""])
    /\ cl' = cl + 1
    /\ pc' = AfterCleanup
    /\ waited' = 0
    /\ UNCHANGED <<caller, commands, output_file, file, final_output_handle, i, idx,
                   last_process_stdout, return_codes, stderr_outputs, outcomes,
                   success, timed_out, result, unlink_failed, now>>

-----------------------------------------------------------------------------
(* Lines 306-331: the output handle is closed, the result decided, the
   output file of a failed run removed *)
(* ZeroCount that misses the first return code *)
ZeroCount_SkipFirst(rcs) == Cardinality({k \in 2..Len(rcs) : rcs[k] = Some(0)})

AllZero(rcs) == \A k \in 1..Len(rcs) : rcs[k] # None => rcs[k] = Some(0)
ZeroCount(rcs) == Cardinality({k \in 1..Len(rcs) : rcs[k] = Some(0)})

(* FinalSuccess without the return-code checks of lines 314-316 *)
FinalSuccess_FlagOnly(s, t, rcs) == s /\ ~t

(* lines 314-323 *)
FinalSuccess(s, t, rcs) ==
    LET first == s /\ AllZero(rcs)
        second == IF ~t /\ ZeroCount(rcs) # Len(rcs) THEN FALSE ELSE first
    IN  IF ~second THEN FALSE ELSE IF t THEN FALSE ELSE second

(* lines 319-323: the closing report *)
FinalReport(s, t, rcs) ==
    LET first == s /\ AllZero(rcs)
        second == IF ~t /\ ZeroCount(rcs) # Len(rcs) THEN FALSE ELSE first
    IN  IF ~second
        THEN <<[kind |-> "warning_incomplete", stage |-> 0, text |-> ""]>>
        ELSE IF t
        THEN <<[kind |-> "error_timeout", stage |-> 0, text |-> ""]>>
        ELSE <<>>

(* RemovePartial that unlinks the file whatever the result *)
RemovePartial_Always(f, final, ok) == IF output_file THEN Unlink(f, ok) ELSE f

(* RemovePartial that leaves the file of a failed run in place *)
RemovePartial_Kept(f, final, ok) == f

(* lines 326-329: the file of a failed run is unlinked when it exists *)
RemovePartial(f, final, ok) ==
    IF ~final /\ output_file /\ f # "absent" THEN Unlink(f, ok) ELSE f

Finish ==
    /\ pc = "finish"
    /\ \E ok \in BOOLEAN :
         LET final == FinalSuccess(success, timed_out, return_codes)
         IN  /\ file' = RemovePartial(file, final, ok)
             /\ unlink_failed' = (~final /\ output_file /\ file # "absent" /\ ~ok)
             /\ result' = IF final THEN "True" ELSE "False"
    /\ final_output_handle' =
           IF final_output_handle = "None" THEN "None" ELSE "closed"
    /\ log' = log \o FinalReport(success, timed_out, return_codes)
    /\ pc' = "done"
    /\ UNCHANGED <<caller, commands, output_file, i, idx, cl, proc, last_process_stdout,
                   return_codes, stderr_outputs, outcomes, success, timed_out,
                   now, waited>>

-----------------------------------------------------------------------------
(* Lines 333-356: the two exception handlers do the same: every stage
   spawned so far is killed, the handle closed, the file unlinked when it
   exists, and False returned *)
Handler(kind) ==
    /\ proc' = [k \in Stages |-> IF Spawned(k) THEN Kill(proc[k]) ELSE proc[k]]
    /\ final_output_handle' =
           IF final_output_handle = "None" THEN "None" ELSE "closed"
    /\ \E ok \in BOOLEAN :
         /\ file' = IF output_file THEN Unlink(file, ok) ELSE file
         /\ unlink_failed' = (output_file /\ file # "absent" /\ ~ok)
    /\ log' = Append(log, [kind |-> kind, stage |-> i, text |-> ""])
    /\ result' = "False"
    /\ pc' = "done_except"
    /\ UNCHANGED <<caller, commands, output_file, i, idx, cl, last_process_stdout,
                   return_codes, stderr_outputs, outcomes, success, timed_out,
                   now, waited>>

ExceptFileNotFound == pc = "except_fnf" /\ Handler("error_not_found")

ExceptOther == pc = "except_other" /\ Handler("error_unexpected")

-----------------------------------------------------------------------------
Next ==
    \/ Setup
    \/ Spawn
    \/ ProcExit
    \/ Tick
    \/ CommunicateReturn
    \/ CommunicateTimeout
    \/ CommunicateError
    \/ CleanupEnded
    \/ CleanupTerminate
    \/ TermWaitReturn
    \/ TermWaitKill
    \/ Finish
    \/ ExceptFileNotFound
    \/ ExceptOther

Spec == Init /\ [][Next]_vars

-----------------------------------------------------------------------------
(* The pipes between the stages and the parent while the stages run.  The
   amount of data in a pipe is not counted: a stage that writes faster than
   its pipe is read finds the pipe full and blocks in the write, and goes on
   once the pipe is read.  Spec leaves the pipes out (no stage ever finds a
   pipe full); SpecFlow adds them for the pipelines of three stages and
   more. *)

(* ParentReads of a parent that blocks in wait() and reads no pipe *)
ParentReads_WaitOnly(k, stream) == FALSE

(* line 233: communicate() on stage idx reads those of its stdout and
   stderr the parent holds open, and no pipe of another stage *)
ParentReads(k, stream) ==
    /\ pc = "communicate"
    /\ k = idx
    /\ proc[k][stream] = "open"

(* the full pipe stage k is blocked on is being read: by the parent for
   stderr and for a stdout the parent kept, else by stage k+1 unless that
   stage is blocked itself; a reader that has ended breaks the pipe *)
Drained(k) ==
    IF proc[k].blk = "stderr" THEN ParentReads(k, "stderr")
    ELSE IF proc[k].stdout = "open" THEN ParentReads(k, "stdout")
    ELSE k < num_commands /\ (proc[k + 1].st # "running" \/ proc[k + 1].blk = "no")

(* a running stage fills the pipe of one of its streams and blocks *)
StageBlocks ==
    /\ pc = "communicate"
    /\ \E k \in Stages, stream \in {"stdout", "stderr"} :
         /\ proc[k].st = "running"
         /\ proc[k].blk = "no"
         /\ proc[k][stream] # "none"
         /\ (stream = "stdout" /\ proc[k].stdout = "closed")
                => (k < num_commands /\ proc[k + 1].st = "running")
         /\ proc' = [proc EXCEPT ![k].blk = stream]
    /\ UNCHANGED <<caller, commands, output_file, file, final_output_handle, pc, i, idx,
                   cl, last_process_stdout, return_codes, stderr_outputs,
                   outcomes, success, timed_out, result, log, unlink_failed,
                   now, waited>>

(* the pipe a stage is blocked on is read and the stage goes on *)
PipeDrained ==
    /\ \E k \in Stages :
         /\ proc[k].st = "running"
         /\ proc[k].blk # "no"
         /\ Drained(k)
         /\ proc' = [proc EXCEPT ![k].blk = "no"]
    /\ UNCHANGED <<caller, commands, output_file, file, final_output_handle, pc, i, idx,
                   cl, last_process_stdout, return_codes, stderr_outputs,
                   outcomes, success, timed_out, result, log, unlink_failed,
                   now, waited>>

InitFlow == Init /\ num_commands >= 3

NextFlow == Next \/ StageBlocks \/ PipeDrained

SpecFlow == InitFlow /\ [][NextFlow]_vars

-----------------------------------------------------------------------------
(* run_pipeline of src/pve-vm-clone-script.py (lines 91-193), the older
   function of the same name.  It has the same locals; SpecVm runs it over
   the same variables, with no output file, the pipelines its caller
   builds, cl as the index of the poll loop and pc "poll" for that loop. *)
VmCommTimeout == 1   \* communicate(timeout=3600)

VmPipelines == { <<"zfs", "zfs">>, <<"zfs", "pv", "zfs">> }

InitVm == Init /\ commands \in VmPipelines /\ ~output_file

(* lines 104-108 *)
VmStdoutDest(k) == IF k < num_commands THEN "open" ELSE "none"
VmStderrDest(k) == IF commands[k] = "pv" THEN "none" ELSE "open"
capture_stderr_flag(k) == VmStderrDest(k) = "open"

(* lines 102-126: one turn of the spawn loop *)
VmSpawn ==
    /\ pc = "spawn"
    /\ \E res \in {"ok", "FileNotFoundError", "OSError"} :
         IF res = "ok"
         THEN /\ proc' = [k \in Stages |->
                    IF k = i
                    THEN [NoProc EXCEPT !.st = "running",
                                        !.stdout = VmStdoutDest(i),
                                        !.stderr = VmStderrDest(i)]
                    ELSE IF k = last_process_stdout
                    THEN CloseStdinSource(proc[k])
                    ELSE proc[k]]
              /\ last_process_stdout' = IF VmStdoutDest(i) = "open" THEN i ELSE 0
              /\ i' = i + 1
              /\ pc' = IF i = num_commands THEN "communicate" ELSE "spawn"
         ELSE /\ pc' = Catch(res)
              /\ UNCHANGED <<proc, last_process_stdout, i>>
    /\ UNCHANGED <<caller, commands, output_file, file, final_output_handle, idx, cl,
                   return_codes, stderr_outputs, outcomes, success, timed_out,
                   result, log, unlink_failed, now, waited>>

(* the end of a stage, taken where the parent is about to look at it *)
VmObserved(k) ==
    \/ pc = "communicate" /\ k = idx
    \/ pc = "poll" /\ k = cl
    \/ pc \in {"except_fnf", "except_other"}

VmProcExit ==
    \E k \in Stages :
        /\ VmObserved(k)
        /\ proc[k].st = "running"
        /\ \E rc \in ExitCodes \cup (IF proc[k].term THEN {SIGTERM_RC} ELSE {}),
              text \in Written(k) :
             proc' = [proc EXCEPT ![k].st = "exited", ![k].status = rc,
                                  ![k].diag = text]
        /\ UNCHANGED <<caller, commands, output_file, file, final_output_handle, pc, i,
                       idx, cl, last_process_stdout, return_codes,
                       stderr_outputs, outcomes, success, timed_out, result, log,
                       unlink_failed, now, waited>>

VmTick ==
    /\ pc = "communicate"
    /\ proc[idx].st = "running"
    /\ waited < VmCommTimeout
    /\ waited' = waited + 1
    /\ now' = IF now < ClockTop THEN now + 1 ELSE now
    /\ UNCHANGED <<caller, commands, output_file, file, final_output_handle, pc, i, idx,
                   cl, proc, last_process_stdout, return_codes, stderr_outputs,
                   outcomes, success, timed_out, result, log, unlink_failed>>

VmAfterWait == IF idx = num_commands THEN "poll" ELSE "communicate"

Last(seq) == seq[Len(seq)]

(* lines 135-136 and 153-168: communicate() returns.  While success holds
   the return code is recorded and checked; after an earlier failure the
   rc left from the earlier turn is appended again. *)
VmCommunicateReturn ==
    /\ pc = "communicate"
    /\ proc[idx].st = "exited"
    /\ LET rc == proc[idx].status
           content == IF capture_stderr_flag(idx) THEN proc[idx].diag ELSE ""
       IN  IF success
           THEN /\ return_codes' = Append(return_codes, Some(rc))
                /\ stderr_outputs' = Append(stderr_outputs, content)
                /\ success' = (rc = 0)
                /\ log' = IF rc = 0 THEN log
                          ELSE Append(log, [kind |-> "error_failed", stage |-> idx,
                                            text |-> content])
           ELSE /\ return_codes' = Append(return_codes, Last(return_codes))
                /\ stderr_outputs' =
                       IF Len(stderr_outputs) = idx - 1
                       THEN Append(stderr_outputs, "") ELSE stderr_outputs
                /\ UNCHANGED <<success, log>>
    /\ proc' = [proc EXCEPT ![idx] = ReadToEnd(Reap(@))]
    /\ idx' = idx + 1
    /\ pc' = VmAfterWait
    /\ waited' = 0
    /\ UNCHANGED <<caller, commands, output_file, file, final_output_handle, i, cl,
                   last_process_stdout, outcomes, timed_out, result,
                   unlink_failed, now>>

(* lines 137-144: the timeout; kill(), a communicate() without timeout that
   returns once the killed stage is reaped, and the loop is left *)
VmCommunicateTimeout ==
    /\ pc = "communicate"
    /\ proc[idx].st = "running"
    /\ waited >= VmCommTimeout
    /\ \E stderr_data \in DiagText(idx) :
         stderr_outputs' =
             Append(stderr_outputs,
                    IF capture_stderr_flag(idx) THEN stderr_data ELSE "")
    /\ proc' = [proc EXCEPT ![idx] = ReadToEnd(Reap(Kill(@)))]
    /\ log' = Append(log, [kind |-> "error_timed_out", stage |-> idx, text |-> ""])
    /\ success' = FALSE
    /\ pc' = "poll"
    /\ waited' = 0
    /\ UNCHANGED <<caller, commands, output_file, file, final_output_handle, i, idx, cl,
                   last_process_stdout, return_codes, outcomes, timed_out,
                   result, unlink_failed, now>>

(* lines 145-150 and 164-168: communicate() raises another exception *)
VmCommunicateError ==
    /\ pc = "communicate"
    /\ \E reaped \in BOOLEAN :
         LET after == IF reaped THEN Reap(proc[idx]) ELSE proc[idx]
             rc == IF after.st = "reaped" THEN after.status ELSE 1
         IN  /\ proc' = [proc EXCEPT ![idx] = after]
             /\ return_codes' = Append(return_codes, Some(rc))
    /\ stderr_outputs' = Append(stderr_outputs, "")
    /\ log' = Append(log, [kind |-> "error_communicate", stage |-> idx, text |-> ""])
    /\ success' = FALSE
    /\ idx' = idx + 1
    /\ pc' = VmAfterWait
    /\ waited' = 0
    /\ UNCHANGED <<caller, commands, output_file, file, final_output_handle, i, cl,
                   last_process_stdout, outcomes, timed_out, result,
                   unlink_failed, now>>

(* lines 170-171: one turn of the loop of proc.poll() *)
VmPoll ==
    /\ pc = "poll"
    /\ proc' = [proc EXCEPT ![cl] = Reap(@)]
    /\ cl' = cl + 1
    /\ pc' = IF cl = num_commands THEN "finish" ELSE "poll"
    /\ UNCHANGED <<caller, commands, output_file, file, final_output_handle, i, idx,
                   last_process_stdout, return_codes, stderr_outputs, outcomes,
                   success, timed_out, result, log, unlink_failed, now, waited>>

(* lines 174-178 *)
VmFinalSuccess(s, rcs) ==
    IF s /\ (Len(rcs) # num_commands \/ \E k \in 1..Len(rcs) : rcs[k] # Some(0))
    THEN FALSE ELSE s

VmFinish ==
    /\ pc = "finish"
    /\ success' = VmFinalSuccess(success, return_codes)
    /\ log' = IF success' # success
              THEN Append(log, [kind |-> "warning_incomplete", stage |-> 0,
                                text |-> ""])
              ELSE log
    /\ result' = IF success' THEN "True" ELSE "False"
    /\ pc' = "done"
    /\ UNCHANGED <<caller, commands, output_file, file, final_output_handle, i, idx, cl,
                   proc, last_process_stdout, return_codes, stderr_outputs,
                   outcomes, timed_out, unlink_failed, now, waited>>

(* Popen.terminate(): send_signal polls first and signals a live process *)
Terminate(p) == IF p.st = "running" THEN [p EXCEPT !.term = TRUE] ELSE Reap(p)

(* lines 182-193: the handlers terminate the stages launched and return *)
VmHandler(kind) ==
    /\ proc' = [k \in Stages |-> IF Spawned(k) THEN Terminate(proc[k]) ELSE proc[k]]
    /\ log' = Append(log, [kind |-> kind, stage |-> 0, text |-> ""])
    /\ result' = "False"
    /\ pc' = "done_except"
    /\ UNCHANGED <<caller, commands, output_file, file, final_output_handle, i, idx, cl,
                   last_process_stdout, return_codes, stderr_outputs, outcomes,
                   success, timed_out, unlink_failed, now, waited>>

VmExceptFileNotFound == pc = "except_fnf" /\ VmHandler("error_not_found")
VmExceptOther == pc = "except_other" /\ VmHandler("error_unexpected")

(* line 100: nothing precedes the spawn loop *)
VmSetup ==
    /\ pc = "start"
    /\ pc' = "spawn"
    /\ UNCHANGED <<caller, commands, output_file, file, final_output_handle, i, idx, cl,
                   proc, last_process_stdout, return_codes, stderr_outputs,
                   outcomes, success, timed_out, result, log, unlink_failed,
                   now, waited>>

NextVm ==
    \/ VmSetup
    \/ VmSpawn
    \/ VmProcExit
    \/ VmTick
    \/ VmCommunicateReturn
    \/ VmCommunicateTimeout
    \/ VmCommunicateError
    \/ VmPoll
    \/ VmFinish
    \/ VmExceptFileNotFound
    \/ VmExceptOther

SpecVm == InitVm /\ [][NextVm]_vars

-----------------------------------------------------------------------------
(* do_clone of src/pve-zfs-utility.py, lines 962-1153: the loop over the
   selected snapshots.  caller holds its locals, the config files conf and
   the target datasets ds of the new IDs ("none", "old" when found to be
   there by a check, "new" when made by this run), and issued, the record
   of the zfs clone, zfs receive and config copies issued.  A file or
   dataset is looked at when the code looks at it. *)
MaxSnaps == 2
MaxDisks == 2
BaseIds == {100}

Snaps == 0..(caller.snaps - 1)
Keys == 1..caller.disks

(* line 963 *)
current_new_id_int == caller.base_new_id_int + caller.i

InitClone ==
    /\ InitIdle
    /\ \E mode \in {"linked", "full"}, type \in {"vm", "lxc"},
          base \in BaseIds, n \in 1..MaxSnaps, m \in 1..MaxDisks :
         caller = [fn |-> "do_clone", at |-> "check_config",
                   clone_mode |-> mode, src_instance_type |-> type,
                   base_new_id_int |-> base, snaps |-> n, disks |-> m,
                   i |-> 0, key |-> 1,
                   conf |-> [id \in base..(base + n - 1) |->
                                [vm |-> "none", lxc |-> "none"]],
                   ds |-> [t \in (base..(base + n - 1)) \X (1..m) |-> "none"],
                   potential_targets_this_snap |-> {},
                   cleanup_list_this_snap |-> <<>>,
                   cloned_datasets_map_this_snap |-> {},
                   all_ops_successful_this_snap |-> TRUE,
                   overall_clone_success |-> TRUE,
                   successful_clones_summary |-> {},
                   issued |-> {},
                   destroy_failed |-> FALSE]

(* Collision that looks only at the config of the source's own type *)
Collision_OwnTypeOnly(vm_exists, lxc_exists) ==
    IF caller.src_instance_type = "vm" THEN vm_exists ELSE lxc_exists

(* lines 973-976 *)
Collision(vm_exists, lxc_exists) == vm_exists \/ lxc_exists

Found(exists, was) == IF exists THEN "old" ELSE was

(* lines 962-989: the ID of this snapshot and the check of its config
   files; the break on a collision *)
CloneCheckConfig ==
    /\ caller.fn = "do_clone"
    /\ caller.at = "check_config"
    /\ \E vm_exists, lxc_exists \in BOOLEAN :
         caller' =
            [caller EXCEPT
               !.conf[current_new_id_int] =
                   [vm |-> Found(vm_exists, @.vm), lxc |-> Found(lxc_exists, @.lxc)],
               !.overall_clone_success =
                   IF Collision(vm_exists, lxc_exists) THEN FALSE ELSE @,
               !.cloned_datasets_map_this_snap = {},
               !.all_ops_successful_this_snap = TRUE,
               !.cleanup_list_this_snap = <<>>,
               !.at = IF Collision(vm_exists, lxc_exists)
                      THEN "finished" ELSE "check_datasets"]
    /\ UNCHANGED pipeline

(* lines 991-1007: every prospective target dataset is looked up; the
   break when one is there *)
CloneCheckDatasets ==
    /\ caller.fn = "do_clone"
    /\ caller.at = "check_datasets"
    /\ \E existing \in SUBSET Keys :
         caller' =
            [caller EXCEPT
               !.ds = [t \in DOMAIN @ |->
                         IF t[1] = current_new_id_int /\ t[2] \in existing
                         THEN "old" ELSE @[t]],
               !.potential_targets_this_snap =
                   {<<current_new_id_int, k>> : k \in Keys},
               !.overall_clone_success = IF existing # {} THEN FALSE ELSE @,
               !.key = 1,
               !.at = IF existing # {} THEN "finished" ELSE "disk"]
    /\ UNCHANGED pipeline

(* what is done with the target of one disk: zfs clone either makes the
   dataset or fails and makes nothing; run_pipeline returns True after zfs
   receive has made the dataset, or False, be it that zfs receive made
   nothing or that it ended well and another stage failed *)
DiskOps ==
    IF caller.clone_mode = "linked"
    THEN {[op |-> "clone", ok |-> TRUE, made |-> TRUE],
          [op |-> "clone", ok |-> FALSE, made |-> FALSE]}
    ELSE {[op |-> "receive", ok |-> TRUE, made |-> TRUE],
          [op |-> "receive", ok |-> FALSE, made |-> FALSE],
          [op |-> "receive", ok |-> FALSE, made |-> TRUE]}

Issue(op) == [op |-> op, i |-> caller.i, id |-> current_new_id_int]

(* lines 1011-1093: one turn of the loop over the disks.  A disk without
   the snapshot is skipped; a failed operation leaves the loop, a
   successful one puts the dataset on the cleanup list. *)
CloneDisk ==
    /\ caller.fn = "do_clone"
    /\ caller.at = "disk"
    /\ LET target == <<current_new_id_int, caller.key>>
           next == IF caller.key = caller.disks THEN "post" ELSE "disk"
       IN  \E has_snapshot \in BOOLEAN, r \in DiskOps :
             caller' =
                IF ~has_snapshot
                THEN [caller EXCEPT !.key = @ + 1, !.at = next]
                ELSE IF r.ok
                THEN [caller EXCEPT
                        !.issued = @ \cup {Issue(r.op)},
                        !.ds[target] = "new",
                        !.cloned_datasets_map_this_snap = @ \cup {caller.key},
                        !.cleanup_list_this_snap = Append(@, target),
                        !.key = @ + 1,
                        !.at = next]
                ELSE [caller EXCEPT
                        !.issued = @ \cup {Issue(r.op)},
                        !.ds[target] = IF r.made THEN "new" ELSE @,
                        !.all_ops_successful_this_snap = FALSE,
                        !.at = "post"]
    /\ UNCHANGED pipeline

(* zfs destroy -r on the datasets of a cleanup list, with check=False: the
   command may fail and the failure is not looked at *)
Destroy(ds, list, ok) ==
    [t \in DOMAIN ds |->
        IF ok /\ \E n \in 1..Len(list) : list[n] = t THEN "none" ELSE ds[t]]

(* lines 1096-1112: after the disks of a snapshot *)
ClonePost ==
    /\ caller.fn = "do_clone"
    /\ caller.at = "post"
    /\ \E ok \in BOOLEAN :
         caller' =
            IF ~caller.all_ops_successful_this_snap
            THEN [caller EXCEPT
                    !.ds = Destroy(@, caller.cleanup_list_this_snap, ok),
                    !.destroy_failed =
                        @ \/ (~ok /\ caller.cleanup_list_this_snap # <<>>),
                    !.overall_clone_success = FALSE,
                    !.at = "finished"]
            ELSE IF caller.cloned_datasets_map_this_snap = {}
            THEN [caller EXCEPT !.overall_clone_success = FALSE,
                                !.at = "finished"]
            ELSE [caller EXCEPT !.at = "config"]
    /\ UNCHANGED pipeline

(* lines 1114-1138: the config of the new ID is copied and adjusted.  When
   either raises, the file is removed if it is there (unlink may fail) and
   the datasets of this snapshot are destroyed. *)
CloneConfig ==
    /\ caller.fn = "do_clone"
    /\ caller.at = "config"
    /\ LET type == caller.src_instance_type
           id == current_new_id_int
           last == caller.i + 1 = caller.snaps
       IN  \E copied, adjusted, unlinked, ok \in BOOLEAN :
             caller' =
                IF copied /\ adjusted
                THEN [caller EXCEPT
                        !.issued = @ \cup {Issue("config")},
                        !.conf[id][type] = "new",
                        !.successful_clones_summary = @ \cup
                            {[i |-> caller.i, id |-> id,
                              keys |-> caller.cloned_datasets_map_this_snap]},
                        !.i = IF last THEN @ ELSE @ + 1,
                        !.at = IF last THEN "finished" ELSE "check_config"]
                ELSE [caller EXCEPT
                        !.issued = @ \cup {Issue("config")},
                        !.conf[id][type] = IF copied /\ ~unlinked THEN "new" ELSE @,
                        !.ds = Destroy(@, caller.cleanup_list_this_snap, ok),
                        !.destroy_failed = @ \/ ~ok,
                        !.overall_clone_success = FALSE,
                        !.at = "finished"]
    /\ UNCHANGED pipeline

(* lines 1140-1153: the closing message *)
CloneFinished ==
    /\ caller.fn = "do_clone"
    /\ caller.at = "finished"
    /\ caller' = [caller EXCEPT !.at = "done"]
    /\ UNCHANGED pipeline

NextClone ==
    \/ CloneCheckConfig
    \/ CloneCheckDatasets
    \/ CloneDisk
    \/ ClonePost
    \/ CloneConfig
    \/ CloneFinished

SpecClone == InitClone /\ [][NextClone]_vars

-----------------------------------------------------------------------------
(* do_restore of src/pve-zfs-utility.py, lines 1478-1635: the collision
   check, the loop over the exported disks, the cleanup and the config of
   the one new ID.  at = "exited" is the end of the script, exit_code its
   status. *)
InitRestore ==
    /\ InitIdle
    /\ \E m \in 0..MaxDisks, method \in {"none", "gzip"}, pv \in BOOLEAN :
         caller = [fn |-> "do_restore", at |-> "check", disks |-> m, key |-> 1,
                   compress_method |-> method, pv_available |-> pv,
                   pipeline_cmds |-> <<>>,
                   conf |-> "none", ds |-> [k \in 1..m |-> "none"],
                   cleanup_list |-> <<>>, restored_datasets_map |-> {},
                   all_data_ops_successful |-> TRUE,
                   destroy_failed |-> FALSE, unlink_failed |-> FALSE,
                   exit_code |-> 0]

(* lines 1478-1508: the config of the new ID and every target dataset are
   looked up; print_error(exit_code=1) ends the script on a collision *)
RestoreCheck ==
    /\ caller.fn = "do_restore"
    /\ caller.at = "check"
    /\ \E conf_exists \in BOOLEAN, existing \in SUBSET Keys :
         LET collision == conf_exists \/ existing # {}
         IN  caller' =
                [caller EXCEPT
                   !.conf = Found(conf_exists, @),
                   !.ds = [k \in DOMAIN @ |-> Found(k \in existing, @[k])],
                   !.exit_code = IF collision THEN 1 ELSE @,
                   !.at = IF collision THEN "exited"
                          ELSE IF caller.disks = 0 THEN "post" ELSE "disk"]
    /\ UNCHANGED pipeline

(* lines 1536-1565: cat stream_file | [decompressor] | [pv] | zfs receive *)
RestorePipeline ==
    <<"cat">>
    \o (IF caller.compress_method # "none" THEN <<"gunzip">> ELSE <<>>)
    \o (IF caller.pv_available THEN <<"pv">> ELSE <<>>)
    \o <<"zfs">>

(* what run_pipeline([cat, .., zfs receive]) gives and leaves *)
RestoreOps ==
    {[ok |-> TRUE, made |-> TRUE], [ok |-> FALSE, made |-> FALSE],
     [ok |-> FALSE, made |-> TRUE]}

(* lines 1522-1580: one turn of the loop over the exported disks *)
RestoreDisk ==
    /\ caller.fn = "do_restore"
    /\ caller.at = "disk"
    /\ LET next == IF caller.key = caller.disks THEN "post" ELSE "disk"
       IN  \E is_file \in BOOLEAN, r \in RestoreOps :
             caller' =
                IF ~is_file
                THEN [caller EXCEPT !.all_data_ops_successful = FALSE,
                                    !.at = "post"]
                ELSE IF r.ok
                THEN [caller EXCEPT
                        !.pipeline_cmds = RestorePipeline,
                        !.ds[caller.key] = "new",
                        !.restored_datasets_map = @ \cup {caller.key},
                        !.cleanup_list = Append(@, caller.key),
                        !.key = @ + 1,
                        !.at = next]
                ELSE [caller EXCEPT
                        !.pipeline_cmds = RestorePipeline,
                        !.ds[caller.key] = IF r.made THEN "new" ELSE @,
                        !.all_data_ops_successful = FALSE,
                        !.at = "post"]
    /\ UNCHANGED pipeline

(* lines 1583-1593: after a failure the datasets of cleanup_list are
   destroyed and the script exits with 1 *)
RestorePost ==
    /\ caller.fn = "do_restore"
    /\ caller.at = "post"
    /\ \E ok \in BOOLEAN :
         caller' =
            IF ~caller.all_data_ops_successful
            THEN [caller EXCEPT
                    !.ds = Destroy(@, caller.cleanup_list, ok),
                    !.destroy_failed = @ \/ (~ok /\ caller.cleanup_list # <<>>),
                    !.exit_code = 1,
                    !.at = "exited"]
            ELSE [caller EXCEPT !.at = "config"]
    /\ UNCHANGED pipeline

(* lines 1596-1625: the config is copied and adjusted; when either raises
   the file is removed if it is there, the restored datasets are destroyed
   and the script exits with 1 *)
RestoreConfig ==
    /\ caller.fn = "do_restore"
    /\ caller.at = "config"
    /\ \E copied, adjusted, unlinked, ok \in BOOLEAN :
         caller' =
            IF copied /\ adjusted
            THEN [caller EXCEPT !.conf = "new", !.at = "finished"]
            ELSE [caller EXCEPT
                    !.conf = IF copied /\ ~unlinked THEN "new" ELSE @,
                    !.unlink_failed = copied /\ ~unlinked,
                    !.ds = Destroy(@, caller.cleanup_list, ok),
                    !.destroy_failed = @ \/ (~ok /\ caller.cleanup_list # <<>>),
                    !.exit_code = 1,
                    !.at = "exited"]
    /\ UNCHANGED pipeline

(* lines 1627-1635: the closing message; the script ends with 0 *)
RestoreFinished ==
    /\ caller.fn = "do_restore"
    /\ caller.at = "finished"
    /\ caller' = [caller EXCEPT !.at = "exited"]
    /\ UNCHANGED pipeline

NextRestore ==
    \/ RestoreCheck
    \/ RestoreDisk
    \/ RestorePost
    \/ RestoreConfig
    \/ RestoreFinished

SpecRestore == InitRestore /\ [][NextRestore]_vars

-----------------------------------------------------------------------------
(* do_export of src/pve-zfs-utility.py, lines 1199-1358: the loop over the
   selected snapshots, each exported to a directory of its own.  dir[s] is
   that directory: state "none", "old" (it was there), "new" (made by this
   run) or "removed", the files in it, and what the metadata lists. *)
NoDir == [state |-> "none", config |-> FALSE, meta |-> FALSE, streams |-> {},
          exported_disks |-> {}]

InitExport ==
    /\ InitIdle
    /\ \E n \in 1..MaxSnaps, m \in 1..MaxDisks :
         caller = [fn |-> "do_export", at |-> "mkdir", snaps |-> n, disks |-> m,
                   snap |-> 1, key |-> 1,
                   dir |-> [s \in 1..n |-> NoDir],
                   exported_disks_metadata_this_snap |-> {},
                   all_data_ops_successful_this_snap |-> TRUE,
                   overall_export_success |-> TRUE,
                   successful_exports_summary |-> {},
                   pipeline_failed |-> {}, meta_written |-> {},
                   rmtree_failed |-> {}]

(* continue: the next selected snapshot, or the end of the loop *)
NextSnap(c) ==
    IF c.snap = c.snaps THEN [c EXCEPT !.at = "finished"]
    ELSE [c EXCEPT !.snap = @ + 1, !.at = "mkdir"]

(* shutil.rmtree of the directory of the current snapshot, if it exists *)
Rmtree(c, ok) ==
    IF c.dir[c.snap].state # "new" THEN c
    ELSE IF ok THEN [c EXCEPT !.dir[c.snap] = [NoDir EXCEPT !.state = "removed"]]
    ELSE [c EXCEPT !.rmtree_failed = @ \cup {c.snap}]

(* lines 1199-1227: mkdir(exist_ok=False) and the write test in the new
   directory; every exception skips the snapshot *)
ExportMkdir ==
    /\ caller.fn = "do_export"
    /\ caller.at = "mkdir"
    /\ \E made \in {"ok", "FileExistsError", "PermissionError"},
          writable \in BOOLEAN :
         LET fresh == [caller EXCEPT
                         !.exported_disks_metadata_this_snap = {},
                         !.all_data_ops_successful_this_snap = TRUE,
                         !.key = 1]
         IN  caller' =
                IF made = "ok" /\ writable
                THEN [fresh EXCEPT !.dir[caller.snap].state = "new",
                                   !.at = "config"]
                ELSE NextSnap(
                       [caller EXCEPT
                          !.dir[caller.snap].state =
                              IF made = "ok" THEN "new"
                              ELSE IF made = "FileExistsError" THEN "old" ELSE @,
                          !.overall_export_success = FALSE])
    /\ UNCHANGED pipeline

(* lines 1230-1243: the config is copied into the directory *)
ExportConfig ==
    /\ caller.fn = "do_export"
    /\ caller.at = "config"
    /\ \E copied, ok \in BOOLEAN :
         caller' =
            IF copied
            THEN [caller EXCEPT !.dir[caller.snap].config = TRUE, !.at = "disk"]
            ELSE NextSnap(Rmtree([caller EXCEPT !.overall_export_success = FALSE],
                                 ok))
    /\ UNCHANGED pipeline

(* what run_pipeline(.., output_file=data_export_path) gives and leaves:
   True with the stream file written, or False with the file removed, or
   False with the file still there when its unlink failed *)
ExportOps ==
    {[ok |-> TRUE, left |-> TRUE], [ok |-> FALSE, left |-> FALSE],
     [ok |-> FALSE, left |-> TRUE]}

(* lines 1250-1313: one turn of the loop over the disks of the snapshot *)
ExportDisk ==
    /\ caller.fn = "do_export"
    /\ caller.at = "disk"
    /\ LET next == IF caller.key = caller.disks THEN "meta" ELSE "disk"
       IN  \E has_snapshot, unlinked \in BOOLEAN, r \in ExportOps :
             caller' =
                IF ~has_snapshot
                THEN [caller EXCEPT !.key = @ + 1, !.at = next]
                ELSE IF r.ok
                THEN [caller EXCEPT
                        !.dir[caller.snap].streams = @ \cup {caller.key},
                        !.exported_disks_metadata_this_snap = @ \cup {caller.key},
                        !.key = @ + 1,
                        !.at = next]
                ELSE [caller EXCEPT
                        !.dir[caller.snap].streams =
                            IF r.left /\ ~unlinked THEN @ \cup {caller.key} ELSE @,
                        !.all_data_ops_successful_this_snap = FALSE,
                        !.pipeline_failed = @ \cup {caller.snap},
                        !.at = "meta"]
    /\ UNCHANGED pipeline

(* lines 1316-1357: after a failed disk the directory is removed; else the
   metadata file is written, and the directory removed when that fails *)
ExportMeta ==
    /\ caller.fn = "do_export"
    /\ caller.at = "meta"
    /\ \E written, ok \in BOOLEAN :
         caller' =
            IF caller.all_data_ops_successful_this_snap /\ written
            THEN NextSnap(
                   [caller EXCEPT
                      !.dir[caller.snap].meta = TRUE,
                      !.dir[caller.snap].exported_disks =
                          caller.exported_disks_metadata_this_snap,
                      !.meta_written = @ \cup {caller.snap},
                      !.successful_exports_summary = @ \cup {caller.snap}])
            ELSE NextSnap(Rmtree([caller EXCEPT !.overall_export_success = FALSE],
                                 ok))
    /\ UNCHANGED pipeline

(* lines 1359 and after: the closing message *)
ExportFinished ==
    /\ caller.fn = "do_export"
    /\ caller.at = "finished"
    /\ caller' = [caller EXCEPT !.at = "done"]
    /\ UNCHANGED pipeline

NextExport ==
    \/ ExportMkdir
    \/ ExportConfig
    \/ ExportDisk
    \/ ExportMeta
    \/ ExportFinished

SpecExport == InitExport /\ [][NextExport]_vars

-----------------------------------------------------------------------------
(* Properties *)

Returned == pc \in {"done", "done_except"}

(* The classification of section 4.4 over the outcomes of the wait loop:
   a BrokenPipe is collateral when a later stage has an outcome that is
   neither Success nor collateral *)
RECURSIVE Collateral(_)
Collateral(k) ==
    /\ outcomes[k] = "BrokenPipe"
    /\ \E j \in (k + 1)..num_commands :
         outcomes[j] # "Success" /\ ~Collateral(j)

ErrorKinds == {"error_failed", "error_timed_out", "error_communicate"}

(* the stage of the first failure report printed, 0 when there is none *)
PrimaryFailure ==
    LET errs == {e \in 1..Len(log) : log[e].kind \in ErrorKinds}
    IN  IF errs = {} THEN 0
        ELSE log[CHOOSE e \in errs : \A f \in errs : e <= f].stage

(* C1: when run_pipeline returns after its wait loop, the result is True
   exactly when every stage's outcome is Success or a collateral BrokenPipe,
   for every pipeline length and every combination of outcomes *)
C1_SuccessIffNoRealFailure ==
    pc = "done" =>
        (result = "True" <=>
            \A k \in Stages : outcomes[k] = "Success" \/ Collateral(k))

(* a returned run with a collateral BrokenPipe *)
C1_Witness ==
    /\ pc = "done"
    /\ num_commands = 3
    /\ \E k \in Stages : Collateral(k)
    /\ result = "False"

(* C2: when run_pipeline was given an output_file and returns False, by
   whichever path, no file is at the output path unless the unlink failed *)
C2_NoFileAfterFailure ==
    (Returned /\ output_file /\ result = "False") =>
        (file = "absent" \/ unlink_failed)

(* a failed run whose output file had been opened and is gone *)
C2_Witness ==
    /\ pc = "done"
    /\ output_file
    /\ result = "False"
    /\ final_output_handle = "closed"
    /\ file = "absent"
    /\ ~unlink_failed

(* C3: after the wait loop return_codes and stderr_outputs hold one entry
   per stage, entry k being that of stage k: the return code of process k
   (or the stand-in -1 / -99 of the timeout and error branches), or the
   filler None / "Not executed or error" of a stage the loop did not reach *)
C3_OneEntryPerStage ==
    pc \in {"cleanup", "term_wait", "finish", "done"} =>
        /\ Len(return_codes) = num_commands
        /\ Len(stderr_outputs) = num_commands
        /\ \A k \in Stages :
             /\ \/ return_codes[k] = None
                \/ return_codes[k] \in {Some(TIMEOUT_RC), Some(COMM_ERR_RC)}
                \/ return_codes[k] = returncode(k)
             /\ return_codes[k] = None <=> k > idx
             /\ return_codes[k] = None <=>
                    stderr_outputs[k] = "Not executed or error"

(* a timeout at the first of three stages ended the wait loop early *)
C3_Witness ==
    /\ pc = "done"
    /\ num_commands = 3
    /\ timed_out
    /\ idx = 1
    /\ Len(return_codes) = 3
    /\ return_codes[3] = None

(* C6: a stage that ended with SIGPIPE while every later stage exited 0
   never leaves the result True *)
C6_UnexplainedSigpipeFails ==
    (pc = "done" /\ \E k \in Stages :
                      /\ return_codes[k] = Some(SIGPIPE_RC)
                      /\ \A j \in (k + 1)..num_commands : return_codes[j] = Some(0))
        => result = "False"

(* every stage exited 0 except one that ended with SIGPIPE *)
C6_Witness ==
    /\ pc = "done"
    /\ num_commands >= 2
    /\ success
    /\ ~timed_out
    /\ \E k \in Stages :
         /\ return_codes[k] = Some(SIGPIPE_RC)
         /\ \A j \in Stages \ {k} : return_codes[j] = Some(0)
    /\ result = "False"

(* C7: in a 3-stage pipeline whose stage 0 ends with SIGPIPE and whose
   stage 1 exits non-zero, the first failure reported is stage 1 (position
   2) and stage 0 gets the SIGPIPE warning and no failure report *)
C7_CollateralSuppression ==
    (/\ pc = "done"
     /\ num_commands = 3
     /\ outcomes[1] = "BrokenPipe"
     /\ outcomes[2] = "NonZeroExit")
        => /\ PrimaryFailure = 2
           /\ \E e \in 1..Len(log) :
                log[e].kind = "warning_sigpipe" /\ log[e].stage = 1
           /\ \A e \in 1..Len(log) :
                log[e].stage = 1 => log[e].kind \notin ErrorKinds

(* such a run has returned *)
C7_Witness ==
    /\ pc = "done"
    /\ num_commands = 3
    /\ outcomes[1] = "BrokenPipe"
    /\ outcomes[2] = "NonZeroExit"
    /\ PrimaryFailure = 2

(* C4: on every path by which run_pipeline returns, every process it
   spawned has been reaped and every pipe end the parent holds for it, and
   the output handle, is closed *)
C4_AllReapedAndClosed ==
    Returned =>
        /\ \A k \in Stages :
             Spawned(k) => /\ proc[k].st = "reaped"
                           /\ proc[k].stdout # "open"
                           /\ proc[k].stderr # "open"
        /\ final_output_handle # "open"

(* C5: an empty commands list is rejected: the result is not True and no
   output file is created *)
C5_EmptyPipelineRejected ==
    (Returned /\ num_commands = 0) =>
        /\ result = "False"
        /\ output_file => file # "new"

(* C8: a stage at any index that runs longer than the stage timeout,
   counted from its launch, is terminated within the timeout plus the
   grace window, recorded as a timeout, and the result is False *)
C8_TimeoutFromLaunch ==
    \A k \in Stages :
        (proc[k].st = "running" /\ ~proc[k].term) =>
            now <= CommTimeout + KillWait

(* C9: once a timeout has fired, every stage that was still running has
   been terminated when run_pipeline returns and is classified as timed
   out *)
C9_TimeoutReachesAll ==
    (pc = "done" /\ timed_out) =>
        \A k \in Stages :
            (proc[k].term \/ proc[k].kill) =>
                (proc[k].st = "reaped" /\ outcomes[k] = "Timeout")

(* C10: no stage is force-killed without a graceful termination request
   sent to it before *)
C10_GracefulBeforeKill ==
    \A k \in Stages : proc[k].kill => proc[k].term

(* C11: when the spawn of stage k fails, the result is False, every stage
   before k has been terminated and drained (waited on, its pipes closed)
   when the call returns, and no stage after k has been launched *)
C11_SpawnFailureDrains ==
    (pc = "done_except" /\ i <= num_commands) =>
        /\ result = "False"
        /\ \A k \in 1..(i - 1) :
             /\ proc[k].st = "reaped"
             /\ proc[k].stdout # "open"
             /\ proc[k].stderr # "open"
        /\ \A k \in i..num_commands : ~Spawned(k)

(* C12: for a non-empty pipeline no exception leaves run_pipeline, and
   what it returns is True or False *)
C12_NoExceptionEscapes ==
    num_commands >= 1 =>
        /\ pc # "raised"
        /\ Returned => result \in {"True", "False"}

(* a spawn was refused with an OSError other than FileNotFoundError, the
   unlink of the output file failed as well, and False was returned *)
C12_Witness ==
    /\ num_commands >= 2
    /\ pc = "done_except"
    /\ i = 2
    /\ \E e \in 1..Len(log) : log[e].kind = "error_unexpected"
    /\ unlink_failed
    /\ result = "False"

(* A stage is held when it is blocked on a full pipe that nobody reads: the
   parent is not reading it, or the stage that should read it is held
   itself.  A stage is starved when it waits for the output of a stage that
   is held on its stderr or starved. *)
RECURSIVE Held(_)
Held(k) ==
    /\ proc[k].st = "running"
    /\ proc[k].blk # "no"
    /\ IF proc[k].blk = "stderr" THEN ~ParentReads(k, "stderr")
       ELSE IF proc[k].stdout = "open" THEN ~ParentReads(k, "stdout")
       ELSE k < num_commands /\ proc[k + 1].st = "running" /\ Held(k + 1)

RECURSIVE Starved(_)
Starved(k) ==
    /\ k > 1
    /\ proc[k].st = "running"
    /\ proc[k].blk = "no"
    /\ proc[k - 1].st = "running"
    /\ (Held(k - 1) /\ proc[k - 1].blk = "stderr") \/ Starved(k - 1)

(* the parent waits on a live stage and no live stage can go on *)
Stuck ==
    /\ pc = "communicate"
    /\ proc[idx].st = "running"
    /\ \A k \in Stages : proc[k].st = "running" => (Held(k) \/ Starved(k))

(* C13: in a pipeline of three stages where only the first stage finds its
   pipes full (its stdout because the middle stage reads slowly, its
   captured stderr because it writes diagnostics), there is no state in
   which the parent waits and every live stage is blocked on a full pipe
   that is not read, or starved behind such a stage.  The case is that of
   a run in which communicate() has raised no exception of its own. *)
C13_NoDeadlockUnderBackpressure ==
    (/\ num_commands >= 3
     /\ \A k \in 2..num_commands : proc[k].blk = "no"
     /\ \A k \in 1..Len(outcomes) : outcomes[k] # "CommunicationError")
        => ~Stuck

C13_Witness ==
    /\ num_commands = 3
    /\ pc = "communicate"
    /\ idx = 1
    /\ proc[1].st = "running"
    /\ proc[1].blk = "stderr"
    /\ proc[2].st = "running"
    /\ proc[3].st = "running"
    /\ waited > 0

(* C14: a file that is at the output path before the call is neither
   truncated nor deleted by it *)
C14_ExistingFileKept == [][file = "old" => file' = "old"]_vars

(* C15: when run_pipeline was given an output_file and returns True, the
   file is at its path and the parent's handle on it is closed *)
C15_FileKeptOnSuccess ==
    (Returned /\ output_file /\ result = "True") =>
        (file = "new" /\ final_output_handle = "closed")

(* a three-stage export that succeeded *)
C15_Witness ==
    /\ pc = "done"
    /\ num_commands = 3
    /\ output_file
    /\ result = "True"
    /\ file = "new"

(* C16: the stage reported first as failed is never the pv stage *)
C16_MonitorNeverPrimary ==
    PrimaryFailure # 0 => commands[PrimaryFailure] # "pv"

(* C17: when a stage whose stderr is captured has written diagnostic text
   and exits non-zero, the step of the wait loop that records its outcome
   stores that text in stderr_outputs and prints it with the failure
   report of the stage. *)
C17_DiagnosticSurfaced ==
    [][(/\ pc = "communicate"
        /\ proc[idx].st = "exited"
        /\ proc[idx].stderr = "open"
        /\ proc[idx].diag # ""
        /\ Len(outcomes') >= idx
        /\ outcomes'[idx] = "NonZeroExit")
       => /\ stderr_outputs'[idx] = proc[idx].diag
          /\ \E e \in (Len(log) + 1)..Len(log') :
                /\ log'[e].kind = "error_failed"
                /\ log'[e].stage = idx
                /\ log'[e].text = proc[idx].diag]_vars

(* C18: when every stage of a non-empty pipeline exits 0, with no timeout
   and no communicate error, the result is True and nothing is reported *)
C18_AllSuccess ==
    (pc = "done" /\ num_commands >= 1
        /\ \A k \in Stages : outcomes[k] = "Success")
        => (result = "True" /\ PrimaryFailure = 0 /\ log = <<>>)

(* three stages that all exited 0 *)
C18_Witness ==
    /\ pc = "done"
    /\ num_commands = 3
    /\ \A k \in Stages : return_codes[k] = Some(0) /\ outcomes[k] = "Success"
    /\ result = "True"

(* C19: when the spawn of stage i fails, the parent's handle on the pipe
   coming from stage i-1 is closed when run_pipeline returns *)
C19_FeedingPipeClosedOnSpawnFailure ==
    (pc = "done_except" /\ i >= 2) => proc[i - 1].stdout # "open"

(* C20: the parent's copy of the pipe between two stages is closed in the
   turn of the spawn loop that launches the reading stage: no later stage
   is launched, and no wait begun, while it is still open *)
C20_ClosedInLaunchOrder ==
    \A k \in Stages :
        (k < num_commands /\ Spawned(k + 1)) => proc[k].stdout = "closed"

(* the second of three stages has been launched and the third not yet *)
C20_Witness ==
    /\ pc = "spawn"
    /\ num_commands = 3
    /\ i = 3
    /\ proc[1].stdout = "closed"
    /\ proc[2].stdout = "open"

(* the stdout pipes made by the Popen calls so far *)
DataPipes == {k \in Stages : Spawned(k) /\ proc[k].stdout # "none"}

(* C21: once the N stages are launched there are N-1 data pipes, and the
   stdout of the last stage is the output file or the caller's stdout, not
   a pipe of which the parent holds the read end. *)
C21_NoExtraPipe ==
    (num_commands >= 1 /\ Spawned(num_commands))
        => /\ Cardinality(DataPipes) = num_commands - 1
           /\ proc[num_commands].stdout = "none"

(* the stages whose outcome is neither Success nor a collateral BrokenPipe *)
RealFailures ==
    {k \in 1..Len(outcomes) : outcomes[k] # "Success" /\ ~Collateral(k)}

Lowest(S) == CHOOSE k \in S : \A j \in S : k <= j

(* C22: after the wait loop, the stage of the first failure report is the
   lowest stage whose outcome is neither Success nor a collateral
   BrokenPipe, and such a report exists whenever one of these stages has
   another outcome than BrokenPipe. *)
C22_PrimaryIsLowest ==
    pc \in {"cleanup", "term_wait", "finish", "done"} =>
        /\ PrimaryFailure # 0 =>
              (RealFailures # {} /\ PrimaryFailure = Lowest(RealFailures))
        /\ (\E k \in RealFailures : outcomes[k] \notin {"BrokenPipe", "NotRun"})
              => PrimaryFailure # 0

(* two stages have failed, the later one reported second *)
C22_Witness ==
    /\ pc = "done"
    /\ num_commands = 3
    /\ outcomes = <<"BrokenPipe", "NonZeroExit", "CommunicationError">>
    /\ PrimaryFailure = 2

(* C23: an exception of communicate() other than a timeout does not fail
   the pipeline when the stage's exit status is known and 0 and every other
   stage has succeeded. *)
C23_CommunicationErrorTolerated ==
    (/\ pc = "done"
     /\ num_commands >= 1
     /\ ~timed_out
     /\ \A k \in Stages : return_codes[k] = Some(0))
        => result = "True"

(* C24: while the parent waits on stage 0, stage 0 is never held on its
   stdout behind a later stage that is blocked on its captured stderr which
   the parent does not read. *)
C24_EveryStderrDrained ==
    ~(/\ pc = "communicate"
      /\ idx = 1
      /\ proc[1].st = "running"
      /\ proc[1].blk = "stdout"
      /\ Held(1)
      /\ \E k \in 2..num_commands :
            proc[k].st = "running" /\ proc[k].blk = "stderr" /\ Held(k))

(* C25: when run_pipeline returns False after every stage was launched, a
   failure report names a stage. *)
C25_FailureNamesStage ==
    (pc = "done" /\ num_commands >= 1 /\ result = "False")
        => PrimaryFailure # 0

(* C26: when run_pipeline of pve-vm-clone-script.py returns True or False
   after its wait loop, a timeout included, no process it launched is still
   running. *)
C26_NoneRunningAtReturn ==
    pc = "done" => \A k \in Stages : proc[k].st # "running"

(* C27: when a zfs clone or a send/receive pipeline has failed for a disk
   of a snapshot and the zfs destroy commands succeeded, then at the end of
   do_clone no target dataset of that snapshot's new ID exists, that of the
   failed disk included, and no config file of that ID has been made. *)
C27_FailedCloneLeavesNothing ==
    (/\ caller.fn = "do_clone"
     /\ caller.at = "done"
     /\ ~caller.all_ops_successful_this_snap
     /\ ~caller.destroy_failed)
        => /\ \A k \in Keys : caller.ds[<<current_new_id_int, k>>] # "new"
           /\ caller.conf[current_new_id_int].vm # "new"
           /\ caller.conf[current_new_id_int].lxc # "new"

(* a config file or a target dataset of the ID of the current snapshot was
   found to be there *)
Collided ==
    \/ caller.conf[current_new_id_int].vm = "old"
    \/ caller.conf[current_new_id_int].lxc = "old"
    \/ \E k \in Keys : caller.ds[<<current_new_id_int, k>>] = "old"

(* C30: every zfs clone, zfs receive and config copy of do_clone is issued
   for the ID base+i of its snapshot i, and for no ID of which a config
   file (VM or LXC) or a target dataset was found by the collision check;
   after a collision no further snapshot is processed, and the clones
   completed before it keep their config and datasets. *)
C30_NoCloneOntoExistingId ==
    caller.fn = "do_clone" =>
        /\ \A e \in caller.issued :
              /\ e.id = caller.base_new_id_int + e.i
              /\ e.i <= caller.i
              /\ caller.conf[e.id].vm # "old"
              /\ caller.conf[e.id].lxc # "old"
              /\ \A k \in Keys : caller.ds[<<e.id, k>>] # "old"
        /\ Collided => caller.at \in {"finished", "done"}
        /\ \A c \in caller.successful_clones_summary :
              /\ caller.conf[c.id][caller.src_instance_type] = "new"
              /\ \A k \in c.keys : caller.ds[<<c.id, k>>] = "new"

(* the second snapshot's ID collides with an LXC config after the first
   snapshot of a VM has been cloned *)
C30_Witness ==
    /\ caller.fn = "do_clone"
    /\ caller.at = "done"
    /\ caller.src_instance_type = "vm"
    /\ caller.snaps = 2
    /\ caller.i = 1
    /\ caller.conf[current_new_id_int].lxc = "old"
    /\ caller.conf[current_new_id_int].vm = "none"
    /\ \E c \in caller.successful_clones_summary : c.i = 0 /\ c.keys = {1, 2}
    /\ \A e \in caller.issued : e.i = 0

(* C28: when do_restore ends after a failed pipeline, a missing stream file
   or a failed config step, and the zfs destroy commands succeeded (and the
   removal of the config file did not fail), no target dataset made by this
   run exists and no config file of the new ID is left. *)
C28_FailedRestoreLeavesNothing ==
    (/\ caller.fn = "do_restore"
     /\ caller.at = "exited"
     /\ caller.exit_code = 1
     /\ ~caller.destroy_failed
     /\ ~caller.unlink_failed)
        => /\ \A k \in Keys : caller.ds[k] # "new"
           /\ caller.conf # "new"

(* the directory of snapshot s holds a whole export *)
Exported(s) ==
    LET d == caller.dir[s]
    IN  /\ d.state = "new"
        /\ d.config
        /\ d.meta
        /\ d.exported_disks \subseteq d.streams

(* C29: when do_export finishes, the directory of every selected snapshot
   holds the config, the metadata and every stream file the metadata lists,
   or the directory this run made for it has been removed unless the
   removal failed; no metadata is written for a snapshot of which a disk
   pipeline failed; and every selected snapshot has been gone through. *)
C29_ExportWholeOrRemoved ==
    (caller.fn = "do_export" /\ caller.at = "done") =>
        /\ caller.snap = caller.snaps
        /\ caller.pipeline_failed \cap caller.meta_written = {}
        /\ \A s \in 1..caller.snaps :
              \/ Exported(s)
              \/ caller.dir[s].state # "new"
              \/ s \in caller.rmtree_failed

====
